---- MODULE Spec2Model ----
(***************************************************************************)
(* Conway's Game of Life on a fixed-size torus: the Universe of            *)
(* src/src/lib.rs (Cell, Universe::get_index, live_neighbor_count, tick,   *)
(* new, render, width, height, cells and its fmt::Display).                *)
(*                                                                         *)
(* The cell sequence is a TLA+ sequence; the flat index idx of the source  *)
(* (0-based) addresses element idx + 1.                                    *)
(***************************************************************************)
EXTENDS Integers, Sequences, FiniteSets

VARIABLES
    width,      \* Universe.width
    height,     \* Universe.height
    cells,      \* Universe.cells
    pc,         \* "idle": between operations; "tick": inside tick; "panicked"
    next,       \* tick's local buffer `next` (<<>> outside tick)
    row,        \* tick's outer loop variable: the next row to pass
    ticks,      \* number of tick calls that have returned
    rendered,   \* the texts render has returned since the last tick
    ret,        \* what the last width/height/cells call since the last tick returned
    seed_at,    \* <<row, column>> at which the test pattern was seeded
    peer        \* a second Universe and its tick count (NoUniverse if none)

vars == <<width, height, cells, pc, next, row, ticks, rendered, ret,
          seed_at, peer>>

----------------------------------------------------------------------------
(* Bounds of the model *)

\* largest width and height of the enumerated grids
MaxDim == 3
\* largest number of cells of the enumerated grids
MaxCells == 9
\* largest number of tick calls made on one universe
MaxTicks == 4
\* largest number of render calls between two ticks
MaxRenders == 2
\* largest width and height of the grids seeded with a 2x2 block
MaxBlockDim == 5
\* width and height of the grid seeded with a glider
GliderDim == 6
\* largest number of tick calls on each of two universes run side by side
MaxPairTicks == 1

----------------------------------------------------------------------------
(* enum Cell, #[repr(u8)] *)

Dead == 0
Alive == 1
Cell == {Dead, Alive}

\* x fits a u32: 0 <= x < 2^32, written with numbers of TLC's own range.
\* Every dimension and coordinate of the grids below is far under 2^31, so
\* u32 arithmetic on them never wraps and is modelled by integer arithmetic;
\* a sum that left the u32 range would make the step fail (BodyPanics).
InU32(x) == x >= 0 /\ x \div 65536 < 65536

\* the Universe held in the variables
Self == [width |-> width, height |-> height, cells |-> cells]

\* self.cells[idx]
At(cs, idx) == cs[idx + 1]

\* fn get_index(&self, row, column) -> usize: (row * self.width + column),
\* computed in u32, then widened
get_index(self, r, c) == r * self.width + c

\* the delta arrays [self.height - 1, 0, 1] and [self.width - 1, 0, 1],
\* in iteration order
RowDeltas(self) == << self.height - 1, 0, 1 >>
ColDeltas(self) == << self.width - 1, 0, 1 >>

\* the (delta_row, delta_col) pairs the two loops visit, in order, as
\* positions 1..3 x 1..3 into the delta arrays; the body runs unless
\* delta_row == 0 && delta_col == 0
Visited(self) ==
    { p \in (1..3) \X (1..3) :
        ~(RowDeltas(self)[p[1]] = 0 /\ ColDeltas(self)[p[2]] = 0) }

\* neighbor_row without the modulo: the sum is used as the row
neighbor_row_unwrapped(self, r, p) == r + RowDeltas(self)[p[1]]

\* neighbor_col truncated at the right edge instead of wrapped
neighbor_col_truncated(self, c, p) ==
    IF c + ColDeltas(self)[p[2]] >= self.width
    THEN self.width - 1
    ELSE c + ColDeltas(self)[p[2]]

\* neighbor_row, neighbor_col for one visited pair
neighbor_row(self, r, p) == (r + RowDeltas(self)[p[1]]) % self.height
neighbor_col(self, c, p) == (c + ColDeltas(self)[p[2]]) % self.width

RECURSIVE SumOver(_, _)
SumOver(f, S) ==
    IF S = {} THEN 0
    ELSE LET x == CHOOSE y \in S : TRUE IN f[x] + SumOver(f, S \ {x})

\* fn live_neighbor_count(&self, row, column) -> u8
live_neighbor_count(self, r, c) ==
    LET contrib == [p \in Visited(self) |->
                      At(self.cells,
                         get_index(self, neighbor_row(self, r, p),
                                         neighbor_col(self, c, p)))]
    IN SumOver(contrib, Visited(self))

\* the match without rule 4: no Dead cell ever becomes Alive
MatchArmNoBirth(cell, live_neighbors) ==
    IF cell = Alive /\ live_neighbors < 2 THEN 1
    ELSE IF cell = Alive /\ (live_neighbors = 2 \/ live_neighbors = 3) THEN 2
    ELSE IF cell = Alive /\ live_neighbors > 3 THEN 3
    ELSE 5

\* the arm of tick's match that (cell, live_neighbors) selects: arms are
\* tried in source order and the first that matches is taken
MatchArm(cell, live_neighbors) ==
    IF cell = Alive /\ live_neighbors < 2 THEN 1
    ELSE IF cell = Alive /\ (live_neighbors = 2 \/ live_neighbors = 3) THEN 2
    ELSE IF cell = Alive /\ live_neighbors > 3 THEN 3
    ELSE IF cell = Dead /\ live_neighbors = 3 THEN 4
    ELSE 5

\* NextCell with rule 1 off by one: a live cell with two neighbours dies
NextCellUnderpopulated(cell, live_neighbors) ==
    IF cell = Alive /\ live_neighbors <= 2 THEN Dead
    ELSE IF cell = Alive /\ live_neighbors = 3 THEN Alive
    ELSE IF cell = Alive /\ live_neighbors > 3 THEN Dead
    ELSE IF cell = Dead /\ live_neighbors = 3 THEN Alive
    ELSE cell

\* let next_cell = match (cell, live_neighbors) { ... }
NextCell(cell, live_neighbors) ==
    LET arm == MatchArm(cell, live_neighbors)
    IN IF arm = 1 THEN Dead
       ELSE IF arm = 2 THEN Alive
       ELSE IF arm = 3 THEN Dead
       ELSE IF arm = 4 THEN Alive
       ELSE cell

----------------------------------------------------------------------------
(* tick's loops: one iteration of the body, for (row, col), and the inner   *)
(* loop over a row                                                         *)

\* every flat index the iteration reads self.cells at
CellReads(self, r, c) ==
    {get_index(self, r, c)} \cup
    { get_index(self, neighbor_row(self, r, p), neighbor_col(self, c, p)) :
        p \in Visited(self) }

\* every u32 sum and product the iteration forms
U32Terms(self, r, c) ==
    {r * self.width, get_index(self, r, c)} \cup
    { r + RowDeltas(self)[p[1]] : p \in Visited(self) } \cup
    { c + ColDeltas(self)[p[2]] : p \in Visited(self) } \cup
    { neighbor_row(self, r, p) * self.width : p \in Visited(self) }

\* the iteration panics: an index outside self.cells or next (slice
\* indexing is bounds-checked), or arithmetic that leaves u32
BodyPanics(self, nx, r, c) ==
    \/ \E i \in CellReads(self, r, c) : i < 0 \/ i >= Len(self.cells)
    \/ get_index(self, r, c) >= Len(nx)
    \/ \E t \in U32Terms(self, r, c) : ~InU32(t)

\* the loop body updating in place: cell and live_neighbors are read from
\* the buffer the pass is writing, which holds the cells already updated
TickBodyInPlace(self, nx, r, c) ==
    LET idx == get_index(self, r, c)
        cell == At(nx, idx)
        live_neighbors == live_neighbor_count([self EXCEPT !.cells = nx], r, c)
    IN [nx EXCEPT ![idx + 1] = NextCell(cell, live_neighbors)]

\* next[idx] = next_cell, with cell and live_neighbors read from self
TickBody(self, nx, r, c) ==
    LET idx == get_index(self, r, c)
        cell == At(self.cells, idx)
        live_neighbors == live_neighbor_count(self, r, c)
    IN [nx EXCEPT ![idx + 1] = NextCell(cell, live_neighbors)]

\* tick's local state: the buffer next, and whether an iteration panicked
LoopState(nx) == [panicked |-> FALSE, next |-> nx]

\* one iteration of the loop body on tick's local state
Iterate(self, st, r, c) ==
    IF BodyPanics(self, st.next, r, c)
    THEN [st EXCEPT !.panicked = TRUE]
    ELSE [st EXCEPT !.next = TickBody(self, st.next, r, c)]

\* for col in c..self.width { body }, in row r
RECURSIVE ColLoop(_, _, _, _)
ColLoop(self, st, r, c) ==
    IF st.panicked \/ c >= self.width THEN st
    ELSE ColLoop(self, Iterate(self, st, r, c), r, c + 1)

\* let mut next = self.cells.clone();
CloneCells(self) == self.cells

\* the commit appending the buffer to the stored cells instead of replacing
\* them
CommitExtend(self, nx) == [self EXCEPT !.cells = self.cells \o nx]

\* self.cells = next;
Commit(self, nx) == [self EXCEPT !.cells = nx]

----------------------------------------------------------------------------
(* pub fn new() -> Universe *)

NewWidth == 64
NewHeight == 64

\* the seed closure testing divisibility by 2 only
SeedCellEven(i) == IF i % 2 = 0 THEN Alive ELSE Dead

\* the closure of new: |i| if i % 2 == 0 || i % 7 == 0 { Alive } else { Dead }
SeedCell(i) == IF i % 2 = 0 \/ i % 7 = 0 THEN Alive ELSE Dead

new ==
    [width |-> NewWidth,
     height |-> NewHeight,
     cells |-> [k \in 1..(NewWidth * NewHeight) |-> SeedCell(k - 1)]]

----------------------------------------------------------------------------
(* impl fmt::Display for Universe, and the accessors *)

WhiteSquare == "U+25FB"
BlackSquare == "U+25FC"
LineBreak == "U+000A"

\* let symbol = if cell == Cell::Dead { white } else { black };
Symbol(cell) == IF cell = Dead THEN WhiteSquare ELSE BlackSquare

Min(a, b) == IF a <= b THEN a ELSE b

\* for line in cells.chunks(width) { for &cell in line {write symbol}; write "\n" }
RECURSIVE FmtChunks(_, _)
FmtChunks(cs, w) ==
    IF cs = <<>> THEN <<>>
    ELSE LET n == Min(w, Len(cs))
         IN [i \in 1..n |-> Symbol(cs[i])] \o <<LineBreak>>
              \o FmtChunks(SubSeq(cs, n + 1, Len(cs)), w)

\* fmt chunking the cells by height instead of width
DisplayByHeight(self) == FmtChunks(self.cells, self.height)

\* fn fmt(&self, f) and to_string()
Display(self) == FmtChunks(self.cells, self.width)

NoRet == [op |-> "none"]
NoUniverse == [constructed |-> FALSE, pc |-> "idle"]

----------------------------------------------------------------------------
(* The operations *)

\* tick, entry: let mut next = self.cells.clone(); the outer loop starts at
\* row 0
TickBegin ==
    /\ pc = "idle"
    /\ peer.pc = "idle"
    /\ next' = CloneCells(Self)
    /\ row' = 0
    /\ pc' = "tick"
    /\ rendered' = <<>>
    /\ ret' = NoRet
    /\ UNCHANGED <<width, height, cells, ticks, seed_at, peer>>

\* tick, one iteration of `for row in 0..height`: the inner loop
\* `for col in 0..width { body }` over the row
TickRow ==
    /\ pc = "tick"
    /\ row < height
    /\ LET st == ColLoop(Self, LoopState(next), row, 0)
       IN IF st.panicked
          THEN /\ pc' = "panicked"
               /\ UNCHANGED <<next, row>>
          ELSE /\ next' = st.next
               /\ row' = row + 1
               /\ pc' = pc
    /\ UNCHANGED <<width, height, cells, ticks, rendered, ret, seed_at, peer>>

\* tick, exit: self.cells = next;
TickCommit ==
    /\ pc = "tick"
    /\ row = height
    /\ LET after == Commit(Self, next)
       IN /\ width' = after.width
          /\ height' = after.height
          /\ cells' = after.cells
    /\ next' = <<>>
    /\ row' = 0
    /\ pc' = "idle"
    /\ ticks' = ticks + 1
    /\ UNCHANGED <<rendered, ret, seed_at, peer>>

\* pub fn render(&self) -> String
Render ==
    /\ pc = "idle"
    /\ Len(rendered) < MaxRenders
    /\ rendered' = Append(rendered, Display(Self))
    /\ UNCHANGED <<width, height, cells, pc, next, row, ticks, ret,
                   seed_at, peer>>

\* pub fn width(&self) -> u32
Width ==
    /\ pc = "idle"
    /\ ret' = [op |-> "width", val |-> width]
    /\ UNCHANGED <<width, height, cells, pc, next, row, ticks, rendered,
                   seed_at, peer>>

\* pub fn height(&self) -> u32
Height ==
    /\ pc = "idle"
    /\ ret' = [op |-> "height", val |-> height]
    /\ UNCHANGED <<width, height, cells, pc, next, row, ticks, rendered,
                   seed_at, peer>>

\* pub fn cells(&self) -> *const Cell: a pointer to the backing sequence
Cells ==
    /\ pc = "idle"
    /\ ret' = [op |-> "cells", val |-> "as_ptr"]
    /\ UNCHANGED <<width, height, cells, pc, next, row, ticks, rendered,
                   seed_at, peer>>

Next == (ticks < MaxTicks /\ TickBegin) \/ TickRow \/ TickCommit \/ Render \/ Width \/ Height \/ Cells

----------------------------------------------------------------------------
(* Specification Spec: every grid of the bounded dimensions *)

Dims ==
    { d \in (1..MaxDim) \X (1..MaxDim) : d[1] * d[2] <= MaxCells }

Idle ==
    /\ pc = "idle"
    /\ next = <<>>
    /\ row = 0
    /\ ticks = 0
    /\ rendered = <<>>
    /\ ret = NoRet

Init ==
    /\ \E d \in Dims :
          /\ width = d[1]
          /\ height = d[2]
          /\ cells \in [1..(d[1] * d[2]) -> Cell]
    /\ Idle
    /\ seed_at = <<0, 0>>
    /\ peer = NoUniverse

Spec == Init /\ [][Next]_vars

----------------------------------------------------------------------------
(* Specification SpecNew: the universe Universe::new() constructs *)

InitNew ==
    /\ width = new.width
    /\ height = new.height
    /\ cells = new.cells
    /\ Idle
    /\ seed_at = <<0, 0>>
    /\ peer = NoUniverse

SpecNew == InitNew /\ [][Next]_vars

\* Specification SpecAny: the bounded grids and the universe of new()
InitAny == Init \/ InitNew

SpecAny == InitAny /\ [][Next]_vars

----------------------------------------------------------------------------
(* Specifications SpecBlock and SpecGlider: an all-dead grid seeded with a  *)
(* pattern, given as the set of its live <<row, column>> coordinates        *)

PatternCells(w, h, live) ==
    [k \in 1..(w * h) |->
        IF <<(k - 1) \div w, (k - 1) % w>> \in live THEN Alive ELSE Dead]

\* the live coordinates of a cell sequence
LiveSet(w, cs) ==
    { <<(k - 1) \div w, (k - 1) % w>> : k \in {j \in 1..Len(cs) : cs[j] = Alive} }

\* a 2x2 block whose top-left cell is (r, c), wrapped on the torus
BlockAt(w, h, r, c) ==
    { <<(r + a) % h, (c + b) % w>> : a \in 0..1, b \in 0..1 }

\* a glider whose bounding box starts at (r, c), wrapped on an n x n torus
GliderOffsets == { <<0, 1>>, <<1, 2>>, <<2, 0>>, <<2, 1>>, <<2, 2>> }
GliderAt(n, r, c) ==
    { <<(r + o[1]) % n, (c + o[2]) % n>> : o \in GliderOffsets }

InitBlock ==
    /\ \E w \in 4..MaxBlockDim, h \in 4..MaxBlockDim :
         \E r \in 0..(h - 1), c \in 0..(w - 1) :
            /\ width = w
            /\ height = h
            /\ cells = PatternCells(w, h, BlockAt(w, h, r, c))
            /\ seed_at = <<r, c>>
    /\ Idle
    /\ peer = NoUniverse

SpecBlock == InitBlock /\ [][Next]_vars

InitGlider ==
    /\ \E r \in 0..(GliderDim - 1), c \in 0..(GliderDim - 1) :
            /\ width = GliderDim
            /\ height = GliderDim
            /\ cells = PatternCells(GliderDim, GliderDim, GliderAt(GliderDim, r, c))
            /\ seed_at = <<r, c>>
    /\ Idle
    /\ peer = NoUniverse

SpecGlider == InitGlider /\ [][Next]_vars

----------------------------------------------------------------------------
(* Specification SpecPair: two universes, each from Universe::new(), ticked *)
(* by one single-threaded driver: a tick call runs to completion before the *)
(* next operation on either universe starts                                 *)

\* a constructor that seeds from a count of the universes constructed before
\* it: the second universe gets the pattern shifted by one cell
PeerNewCounterSeeded ==
    /\ pc = "idle"
    /\ peer = NoUniverse
    /\ peer' = [constructed |-> TRUE,
                universe |->
                  [new EXCEPT !.cells =
                     [k \in 1..(NewWidth * NewHeight) |-> SeedCell(k - 1 + 1)]],
                ticks |-> 0,
                pc |-> "idle", next |-> <<>>, row |-> 0]
    /\ UNCHANGED <<width, height, cells, pc, next, row, ticks, rendered,
                   ret, seed_at>>

\* Universe::new() for the second universe
PeerNew ==
    /\ pc = "idle"
    /\ peer = NoUniverse
    /\ peer' = [constructed |-> TRUE, universe |-> new, ticks |-> 0,
                pc |-> "idle", next |-> <<>>, row |-> 0]
    /\ UNCHANGED <<width, height, cells, pc, next, row, ticks, rendered,
                   ret, seed_at>>

\* tick on the second universe, entry
PeerTickBegin ==
    /\ pc = "idle"
    /\ peer.constructed
    /\ peer.pc = "idle"
    /\ peer.ticks < MaxPairTicks
    /\ peer' = [peer EXCEPT !.next = CloneCells(peer.universe),
                            !.row = 0, !.pc = "tick"]
    /\ UNCHANGED <<width, height, cells, pc, next, row, ticks, rendered,
                   ret, seed_at>>

\* tick on the second universe, one iteration of the outer loop
PeerTickRow ==
    /\ peer.pc = "tick"
    /\ peer.row < peer.universe.height
    /\ LET st == ColLoop(peer.universe, LoopState(peer.next), peer.row, 0)
       IN peer' = IF st.panicked
                  THEN [peer EXCEPT !.pc = "panicked"]
                  ELSE [peer EXCEPT !.next = st.next, !.row = peer.row + 1]
    /\ UNCHANGED <<width, height, cells, pc, next, row, ticks, rendered,
                   ret, seed_at>>

\* tick on the second universe, exit
PeerTickCommit ==
    /\ peer.pc = "tick"
    /\ peer.row = peer.universe.height
    /\ peer' = [peer EXCEPT !.universe = Commit(peer.universe, peer.next),
                            !.next = <<>>, !.row = 0,
                            !.pc = "idle", !.ticks = peer.ticks + 1]
    /\ UNCHANGED <<width, height, cells, pc, next, row, ticks, rendered,
                   ret, seed_at>>

NextPair ==
    \/ (ticks < MaxPairTicks /\ TickBegin) \/ TickRow \/ TickCommit
    \/ PeerNew \/ PeerTickBegin \/ PeerTickRow \/ PeerTickCommit

SpecPair == InitNew /\ [][NextPair]_vars

----------------------------------------------------------------------------
(* Definitions the properties are stated with *)

\* the flat indices tick's loops have already passed when the outer loop
\* stands at row
Passed == 0..(row * width - 1)

\* the columns of a row
Columns == 0..(width - 1)

\* row and column of flat index k
RowOf(k) == k \div width
ColOf(k) == k % width

\* the next states the transition table of the specification gives for
\* (cell, n): one set member per table line that applies
TableRows(cell, n) ==
    (IF cell = Alive /\ n < 2 THEN {Dead} ELSE {}) \cup
    (IF cell = Alive /\ (n = 2 \/ n = 3) THEN {Alive} ELSE {}) \cup
    (IF cell = Alive /\ n > 3 THEN {Dead} ELSE {}) \cup
    (IF cell = Dead /\ n = 3 THEN {Alive} ELSE {}) \cup
    (IF cell = Dead /\ n # 3 THEN {Dead} ELSE {})

\* C1: every cell tick has assigned in the current pass holds exactly the
\* one state the transition table gives for the cell's current state and its
\* live-neighbour count n, n is in 0..8, and the catch-all arm of the match
\* was taken for Dead cells only; the match gives each of the 18 pairs
\* (state, n) the one state the table gives it.
RuleTable_C1 ==
    /\ pc = "tick" =>
          \A k \in Passed :
              LET cell == At(cells, k)
                  n == live_neighbor_count(Self, RowOf(k), ColOf(k))
              IN /\ n \in 0..8
                 /\ TableRows(cell, n) = {At(next, k)}
                 /\ (MatchArm(cell, n) = 5 => cell = Dead)
    /\ \A cell \in Cell, n \in 0..8 :
          /\ TableRows(cell, n) = {NextCell(cell, n)}
          /\ (MatchArm(cell, n) = 5 => cell = Dead)

\* a pass over a 3x3 grid has finished in which a Dead cell with 8 live
\* neighbours stayed Dead (the catch-all arm) and the Alive cells, with 7
\* live neighbours, died
RuleTableWitness_C1 ==
    /\ pc = "tick"
    /\ row = height
    /\ width = 3
    /\ height = 3
    /\ \E k \in Passed :
          /\ At(cells, k) = Dead
          /\ live_neighbor_count(Self, RowOf(k), ColOf(k)) = 8
          /\ At(next, k) = Dead
    /\ \E k \in Passed : At(cells, k) = Alive /\ At(next, k) = Dead

\* the whole grid updated at once: every cell from the same generation
SimultaneousUpdate(self) ==
    [k \in 1..Len(self.cells) |->
        NextCell(self.cells[k],
                 live_neighbor_count(self, (k - 1) \div self.width,
                                           (k - 1) % self.width))]

\* C2: tick's row-major pass equals one simultaneous update of the grid:
\* the buffer starts as a copy of the cells, no step inside tick changes the
\* stored cells, the step that ends tick replaces them by the simultaneous
\* update of the pre-tick generation, and no other step changes them.
DoubleBuffered_C2 ==
    [][ /\ (pc = "idle" /\ pc' = "tick" => next' = cells /\ cells' = cells)
        /\ (pc = "tick" /\ pc' = "tick" => cells' = cells)
        /\ (pc = "tick" /\ pc' = "idle" => cells' = SimultaneousUpdate(Self))
        /\ (cells' # cells => pc = "tick" /\ pc' = "idle") ]_vars

\* a pass stands before a row with a cell one of whose neighbours it has
\* already changed in the buffer: an in-place pass would count differently
DoubleBufferedWitness_C2 ==
    /\ pc = "tick"
    /\ row < height
    /\ next # cells
    /\ \E c \in Columns :
          live_neighbor_count(Self, row, c)
            # live_neighbor_count([Self EXCEPT !.cells = next], row, c)

\* the eight toroidal Moore neighbours of (r, c), each offset counted once
MooreOffsets == ({-1, 0, 1} \X {-1, 0, 1}) \ {<<0, 0>>}
MooreCount(self, r, c) ==
    LET alive == [o \in MooreOffsets |->
                    At(self.cells, ((r + o[1]) % self.height) * self.width
                                    + ((c + o[2]) % self.width))]
    IN SumOver(alive, MooreOffsets)

SeedAlive_C4 == {2 * j : j \in 0..2047} \cup {7 * j : j \in 0..585}
SeedGrid_C4 ==
    [k \in 1..4096 |-> IF (k - 1) \in SeedAlive_C4 THEN Alive ELSE Dead]

\* C4: Universe::new() returns width = 64, height = 64 and exactly 4096
\* cells, cell i (0 <= i <= 4095) Alive if and only if i is divisible by 2
\* or by 7, Dead otherwise. The universe is as constructed until its first
\* tick returns.
NewUniverse_C4 ==
    ticks = 0 =>
        /\ width = 64
        /\ height = 64
        /\ Len(cells) = 4096
        /\ cells = SeedGrid_C4

\* the freshly constructed universe: cell 7 and cell 4095 (odd multiples of
\* 7) are Alive, cell 4093 (odd, no multiple of 7) is Dead
NewUniverseWitness_C4 ==
    /\ ticks = 0
    /\ pc = "idle"
    /\ Len(cells) = 4096
    /\ At(cells, 7) = Alive
    /\ At(cells, 4095) = Alive
    /\ At(cells, 4093) = Dead

\* C5: in every reachable state the cell sequence has width * height cells,
\* and no step (of tick, render, width, height or cells) changes width or
\* height: they keep the values they had at construction.
LengthFixed_C5 ==
    /\ [](Len(cells) = width * height)
    /\ [][width' = width /\ height' = height]_vars

\* a non-square universe that has been ticked, rendered and read
LengthFixedWitness_C5 ==
    /\ pc = "idle"
    /\ ticks >= 2
    /\ width # height
    /\ Len(rendered) >= 1
    /\ ret # NoRet
    /\ Len(cells) = width * height

\* C6: a grid of width >= 4 and height >= 4 whose only live cells are a 2x2
\* block (anywhere, also across the wrapped edges) never changes: the cells
\* are the seeded block in every state, every block cell has exactly 3 live
\* neighbours and no dead cell has exactly 3.
BlockStill_C6 ==
    /\ cells = PatternCells(width, height,
                            BlockAt(width, height, seed_at[1], seed_at[2]))
    /\ \A k \in 0..(width * height - 1) :
          LET n == live_neighbor_count(Self, RowOf(k), ColOf(k))
          IN IF At(cells, k) = Alive THEN n = 3 ELSE n # 3

\* a block seeded across both wrapped edges of a non-square grid, after the
\* largest number of ticks
BlockStillWitness_C6 ==
    /\ pc = "idle"
    /\ ticks = MaxTicks
    /\ width # height
    /\ seed_at = <<height - 1, width - 1>>
    /\ LiveSet(width, cells) = {<<0, 0>>, <<0, width - 1>>,
                                <<height - 1, 0>>, <<height - 1, width - 1>>}

\* C7: on the all-dead 6x6 grid seeded with a glider, once exactly 4 tick
\* calls have returned the live cells are the seeded glider moved by one row
\* and one column (modulo the grid size), and no others.
GliderMoves_C7 ==
    ticks = 4 =>
        LiveSet(width, cells) =
            GliderAt(GliderDim, seed_at[1] + 1, seed_at[2] + 1)

\* four ticks have returned on a grid whose glider was seeded in the middle
GliderMovesWitness_C7 ==
    /\ pc = "idle"
    /\ ticks = 4
    /\ seed_at = <<1, 1>>
    /\ LiveSet(width, cells) = {<<2, 3>>, <<3, 4>>, <<4, 2>>, <<4, 3>>, <<4, 4>>}

\* the text of the grid: height rows in row-major order, each row the
\* width glyphs of its cells followed by a line break
IsGridText(text, self) ==
    /\ Len(text) = self.height * (self.width + 1)
    /\ \A r \in 0..(self.height - 1) :
          /\ \A c \in 0..(self.width - 1) :
                text[r * (self.width + 1) + c + 1] =
                    (IF At(self.cells, r * self.width + c) = Dead
                     THEN WhiteSquare ELSE BlackSquare)
          /\ text[r * (self.width + 1) + self.width + 1] = LineBreak

\* C8: render and the accessors leave width, height and every cell
\* unchanged; all render calls with no tick in between return the same text;
\* the text is the height rows in row-major order, row by row the width
\* glyphs of the row's cells (one glyph for Dead, another for Alive), and a
\* line break after each row, which separates it from the next.
RenderPure_C8 ==
    /\ [](\A i \in 1..Len(rendered) :
            /\ IsGridText(rendered[i], Self)
            /\ rendered[i] = rendered[1])
    /\ [][(pc = "idle" /\ pc' = "idle" /\ ticks' = ticks)
            => (width' = width /\ height' = height /\ cells' = cells)]_vars
    /\ WhiteSquare # BlackSquare

\* two renders and an accessor call since the last tick, on a non-square
\* grid that holds both Dead and Alive cells
RenderPureWitness_C8 ==
    /\ pc = "idle"
    /\ ticks >= 1
    /\ Len(rendered) = 2
    /\ ret # NoRet
    /\ width # height
    /\ height >= 2
    /\ \E i, j \in 1..Len(cells) : cells[i] = Dead /\ cells[j] = Alive

TickNeverFails_C10 ==
    /\ pc # "panicked"
    /\ (pc = "tick" /\ row < height) =>
          /\ width >= 1 /\ height >= 1
          /\ row \in 0..(height - 1)
          /\ \A c \in Columns :
                /\ \A p \in Visited(Self) :
                      /\ neighbor_row(Self, row, p) \in 0..(height - 1)
                      /\ neighbor_col(Self, c, p) \in 0..(width - 1)
                /\ \A i \in CellReads(Self, row, c) :
                      i \in 0..(width * height - 1)
                /\ get_index(Self, row, c) \in 0..(Len(next) - 1)
                /\ \A t \in U32Terms(Self, row, c) : InU32(t)

\* the pass over the 64x64 universe of new() stands at its last row, where
\* the sums row + delta_row and column + delta_col are largest
TickNeverFailsWitness_C10 ==
    /\ pc = "tick"
    /\ width = NewWidth
    /\ height = NewHeight
    /\ row = height - 1
    /\ (row + RowDeltas(Self)[1]) \in U32Terms(Self, row, width - 1)
====
